---- MODULE Spec2Model ----
(***************************************************************************)
(* IPS certification backend (src/main.py over the tables of               *)
(* src/database.py): exam submission, certificate issuance and the         *)
(* payment gate driven by the Razorpay webhook.                            *)
(*                                                                         *)
(* Every request handler is a process.  A handler that touches the store  *)
(* more than once is split at its commits, so that handlers running in     *)
(* different workers interleave between their reads and their commits.     *)
(*                                                                         *)
(* Optional values (None in Python) are sequences of length 0 or 1:        *)
(* None is << >> and a present value x is <<x>>.                           *)
(* Percentages are integers in hundredths of a percent (60.0 is 6000).     *)
(***************************************************************************)
EXTENDS Integers, Sequences, FiniteSets, TLC

(* ------------------------------ bounds -------------------------------- *)

\* submissions that may be started in one behaviour of the serial
\* specification (caps the attempt ids)
MaxAttempts == 2
\* submissions that may be started while two workers interleave
MaxConcurrentAttempts == 1
\* longest answers list of a submission
MaxAnswers == 2
\* largest total_questions a seeded CertificateType carries
MaxTotalQuestions == 3

(* --------------------------- program constants ------------------------ *)

\* the seeded exam: marks per correct MCQ, pass threshold, fee in rupees
SeedMcqMark == 4
SeedPassPercentage == 5000
SeedCertificateFee == 500
\* a pass threshold with two decimals that a percentage can round up to: 66.67
TightPassPercentage == 6667
\* the thresholds a CertificateType may carry (pass_percentage: float)
PassPercentages == {SeedPassPercentage, TightPassPercentage}
\* datetime.utcnow().year while the service runs
CurrentYear == 2025

\* the workers that handle requests, each one request at a time
Procs == {"w1", "w2"}
None == << >>
Some(x) == <<x>>

\* the catalog: one certificate type
TypeCodes == {"LEVEL-1"}
RequestTypeCodes == TypeCodes \cup {"LEVEL-X"}
Emails == {"a@ips"}
Names == {"Asha", "Ravi"}
QuestionIds == {1, 2}
\* a question id outside the bank
UnknownQuestionId == CHOOSE n \in 1..(Cardinality(QuestionIds) + 1) : n \notin QuestionIds
OptionIds == {1}

(* ------------------------------ webhook ------------------------------- *)

RAZORPAY_WEBHOOK_SECRET == "whsec"
ForgedSecret == "guess"

\* hmac.new(key, body, sha256).hexdigest(): a digest is determined by, and
\* determines, the key and the exact body it was computed over
HmacSha256(key, body) == [key |-> key, body |-> body]

CertificateCode_withoutId(y, id) == <<"IPS", y, 0>>

\* f"IPS-{datetime.utcnow().year}-{attempt.id:06d}"
CertificateCode(y, id) == <<"IPS", y, id>>
\* a well-formed code that no Certificate carries: attempt ids start at 1
MissingCode == CertificateCode(CurrentYear, 0)
AllCodes == {CertificateCode(CurrentYear, id) : id \in 0..MaxAttempts}

\* the JSON bodies a caller may post: an event type (or none) and the
\* payload.payment.entity.notes.certificate_code it names
EventTypes == {"payment.captured", "payment.failed"}
Bodies == [event : EventTypes, code : AllCodes]

\* the X-Razorpay-Signature header sent with a body: absent, the digest of
\* this body or of another body naming the same certificate under the shared
\* secret, or the digest of this body under a guessed secret
SignaturesFor(body) ==
  {None}
    \cup {Some(HmacSha256(RAZORPAY_WEBHOOK_SECRET, b)) : b \in {x \in Bodies : x.code = body.code}}
    \cup {Some(HmacSha256(ForgedSecret, body))}

\* what the request is, independently of what the handler makes of it
SignatureClass(body, signature) ==
  IF signature = None THEN "missing"
  ELSE IF signature[1] = HmacSha256(RAZORPAY_WEBHOOK_SECRET, body) THEN "valid"
  ELSE "mismatch"

(* ------------------------------ grading ------------------------------- *)

\* an AnswerItem: question_id and Optional selected_option_id
AnswerItems ==
  [question_id : QuestionIds \cup {UnknownQuestionId},
   selected_option_id : {Some(o) : o \in OptionIds} \cup {None}]

RECURSIVE SeqsUpTo(_, _)
SeqsUpTo(S, n) ==
  IF n = 0 THEN {<< >>}
  ELSE LET shorter == SeqsUpTo(S, n - 1)
       IN shorter \cup {Append(s, x) : s \in {t \in shorter : Len(t) = n - 1}, x \in S}

AnswerLists == SeqsUpTo(AnswerItems, MaxAnswers)

\* round(x, 2) of x = 100 * score / total_marks, in hundredths of a percent
\* (Python rounds to the nearest, ties to even)
Round2(score, total_marks) ==
  LET n == 10000 * score
      q == n \div total_marks
      r == n % total_marks
  IN IF 2 * r < total_marks THEN q
     ELSE IF 2 * r > total_marks THEN q + 1
     ELSE IF q % 2 = 0 THEN q ELSE q + 1

\* percentage >= cert_type.pass_percentage, on the unrounded percentage
PassedThreshold(score, total_marks, pass_percentage) ==
  10000 * score >= pass_percentage * total_marks

(* ------------------------------- state -------------------------------- *)

VARIABLES
  certificate_types,  \* table certificate_types: code -> row (read-only catalog)
  questions,          \* table questions: id -> row (read-only bank)
  users,              \* table users, committed rows; the row id is the index
  attempts,           \* table attempts
  answers,            \* table answers
  certificates,       \* table certificates
  outbox,             \* per certificate code: calls of send_certificate_email, and deliveries
  files,              \* per certificate code: whether cert_previews/<code>.png
                      \* holds an image that carries the preview watermark
  pc,                 \* where each handler stands
  local               \* each handler's request, session objects and response

vars ==
  <<certificate_types, questions, users, attempts, answers, certificates,
    outbox, files, pc, local>>

store == <<users, attempts, answers, certificates>>
catalog == <<certificate_types, questions>>

\* a handler that holds no request
NoRequest ==
  [op |-> "none", status |-> 0, detail |-> "",
   ctype |-> "", email |-> "", name |-> "",
   user_id |-> 0, attempt_id |-> 0, total_marks |-> 0,
   score |-> 0, percentage |-> 0, passed |-> FALSE,
   code |-> None, cert_id |-> 0, event |-> "", sigclass |-> "",
   answers |-> << >>, order |-> None, body |-> None]

\* the store after create_db_and_tables and seeding: a catalog whose
\* CertificateType announces total_questions questions, the bank of two
\* questions (one MCQ, one SHORT without a correct option), no other row
InitWith(total_questions, pass_percentage) ==
  /\ certificate_types =
       [c \in TypeCodes |->
          [title |-> c, total_questions |-> total_questions,
           mcq_mark |-> SeedMcqMark,
           pass_percentage |-> pass_percentage,
           certificate_fee |-> SeedCertificateFee]]
  /\ questions =
       [q \in QuestionIds |->
          IF q = 1
          THEN [certificate_code |-> "LEVEL-1", question_type |-> "MCQ",
                question |-> "Q1", options |-> Some(OptionIds),
                max_marks |-> SeedMcqMark,
                correct_option |-> Some(1)]
          ELSE [certificate_code |-> "LEVEL-1", question_type |-> "SHORT",
                question |-> "Q2", options |-> None,
                max_marks |-> SeedMcqMark,
                correct_option |-> None]]
  /\ users = << >>
  /\ attempts = << >>
  /\ answers = << >>
  /\ certificates = << >>
  /\ outbox = [c \in AllCodes |-> [calls |-> 0, delivered |-> 0]]
  /\ files = [c \in AllCodes |-> FALSE]
  /\ pc = [p \in Procs |-> "idle"]
  /\ local = [p \in Procs |-> NoRequest]

\* the catalog announces as many questions as the bank holds
Init == InitWith(Cardinality(QuestionIds), SeedPassPercentage)

\* the catalog announces any number of questions, none included, and
\* carries any of the thresholds
InitAnyCatalog ==
  \E total_questions \in 0..MaxTotalQuestions, pass_percentage \in PassPercentages :
    InitWith(total_questions, pass_percentage)

(* ------------------------------ queries ------------------------------- *)

\* .first(): the id of the first matching row, or 0 (ids start at 1)
First(hits) ==
  IF hits = {} THEN 0 ELSE CHOOSE i \in hits : \A j \in hits : i <= j

\* select(User).where(User.email == email).first()
UserByEmail(email) == First({i \in 1..Len(users) : users[i].email = email})

\* select(Certificate).where(Certificate.certificate_code == code).first()
CertificateByCode(code) ==
  First({i \in 1..Len(certificates) : certificates[i].certificate_code = code})

\* the handler returns or raises: the response is fixed and the session closed
Respond(p, status, detail, fields) ==
  /\ pc' = [pc EXCEPT ![p] = "done"]
  /\ local' = [local EXCEPT ![p] = [k \in DOMAIN local[p] |->
                 IF k = "status" THEN status
                 ELSE IF k = "detail" THEN detail
                 ELSE IF k \in DOMAIN fields THEN fields[k]
                 ELSE local[p][k]]]

Goto(p, label, fields) ==
  /\ pc' = [pc EXCEPT ![p] = label]
  /\ local' = [local EXCEPT ![p] = [k \in DOMAIN local[p] |->
                 IF k \in DOMAIN fields THEN fields[k] ELSE local[p][k]]]

NoFields == [x \in {} |-> 0]

(* ---------------------------- submit_exam ----------------------------- *)

\* submissions started and not yet holding an attempt id
SubmissionsPending ==
  Cardinality({q \in Procs : pc[q] \in {"submit_user", "submit_attempt"}})

\* cert_type and user lookup (main.py 130-142)
submit_exam_lookup(p, name, email, ctype, max_attempts) ==
  /\ pc[p] = "idle"
  /\ Len(attempts) + SubmissionsPending < max_attempts
  /\ LET req == [op |-> "submit", name |-> name, email |-> email, ctype |-> ctype]
         uid == UserByEmail(email)
     IN IF ctype \notin DOMAIN certificate_types
        THEN Respond(p, 404, "Invalid certificate", req)
        ELSE IF uid # 0
        THEN Goto(p, "submit_attempt", req @@ [user_id |-> uid])
        ELSE Goto(p, "submit_user", req)
  /\ UNCHANGED <<catalog, store, outbox, files>>

\* User(full_name=req.name, email=req.email)
NewUser(name, email) == [full_name |-> name, email |-> email]

\* insert of the new User; users.email is unique (main.py 143-146)
submit_exam_create_user(p) ==
  /\ pc[p] = "submit_user"
  /\ IF UserByEmail(local[p].email) # 0
     THEN /\ Respond(p, 500, "IntegrityError", NoFields)
          /\ UNCHANGED users
     ELSE /\ users' = Append(users, NewUser(local[p].name, local[p].email))
          /\ Goto(p, "submit_attempt", [user_id |-> Len(users) + 1])
  /\ UNCHANGED <<catalog, attempts, answers, certificates, outbox, files>>

\* total_marks = cert_type.total_questions * cert_type.mcq_mark
TotalMarks(cert_type) == cert_type.total_questions * cert_type.mcq_mark

\* Attempt(user_id, certificate_code, total_marks) with the column defaults
NewAttempt(user_id, ctype, total_marks) ==
  [user_id |-> user_id, certificate_code |-> ctype, total_marks |-> total_marks,
   total_marks_obtained |-> 0, percentage |-> 0, grade |-> "FAIL", is_passed |-> FALSE]

\* insert and commit of the Attempt with zeroed score fields (main.py 148-164)
submit_exam_insert_attempt(p) ==
  /\ pc[p] = "submit_attempt"
  /\ LET total_marks == TotalMarks(certificate_types[local[p].ctype])
     IN /\ attempts' = Append(attempts, NewAttempt(local[p].user_id, local[p].ctype, total_marks))
        /\ Goto(p, "submit_grade",
                [attempt_id |-> Len(attempts) + 1, total_marks |-> total_marks])
  /\ UNCHANGED <<catalog, users, answers, certificates, outbox, files>>

\* qmap = {q.id: q for q in questions}, the bank of the certificate
QMap(ctype) == {q \in DOMAIN questions : questions[q].certificate_code = ctype}

\* marks of one answer item (main.py 168-172)
Marks(cert_type, q, a) ==
  IF a.selected_option_id = q.correct_option THEN cert_type.mcq_mark ELSE 0

\* the Answer row of one answer item (main.py 176-182)
AnswerRow(attempt_id, cert_type, a) ==
  [attempt_id |-> attempt_id, question_id |-> a.question_id,
   selected_option_id |-> a.selected_option_id,
   correct_option |-> questions[a.question_id].correct_option,
   marks_awarded |-> Marks(cert_type, questions[a.question_id], a)]

AnswerRows_firstOnly(attempt_id, cert_type, req_answers) ==
  [i \in 1..(IF req_answers = << >> THEN 0 ELSE 1) |->
     AnswerRow(attempt_id, cert_type, req_answers[i])]

\* one Answer per item of req.answers, in their order (main.py 166-183)
AnswerRows(attempt_id, cert_type, req_answers) ==
  [i \in 1..Len(req_answers) |-> AnswerRow(attempt_id, cert_type, req_answers[i])]

RECURSIVE SumMarks(_)
SumMarks(rows) ==
  IF rows = << >> THEN 0 ELSE rows[1].marks_awarded + SumMarks(Tail(rows))

\* score after the loop over req.answers
Score(cert_type, req_answers) == SumMarks(AnswerRows(0, cert_type, req_answers))

\* the graded Attempt (main.py 188-191)
GradedAttempt(attempt, score, percentage, passed) ==
  [attempt EXCEPT !.total_marks_obtained = score, !.percentage = percentage,
                  !.is_passed = passed, !.grade = IF passed THEN "PASS" ELSE "FAIL"]

\* the grading loop, the percentage and the commit of Answers and Attempt
\* (main.py 166-194): qmap[a.question_id] raises KeyError on an id outside
\* the bank and score / total_marks raises ZeroDivisionError; either way the
\* session closes with nothing of this step committed
submit_exam_grade(p, req_answers) ==
  /\ pc[p] = "submit_grade"
  /\ LET cert_type == certificate_types[local[p].ctype]
         total_marks == local[p].total_marks
         aid == local[p].attempt_id
         score == Score(cert_type, req_answers)
         req == [answers |-> req_answers]
     IN IF \E i \in 1..Len(req_answers) : req_answers[i].question_id \notin QMap(local[p].ctype)
        THEN /\ Respond(p, 500, "KeyError", req)
             /\ UNCHANGED <<attempts, answers>>
        ELSE IF total_marks = 0
        THEN /\ Respond(p, 500, "ZeroDivisionError", req)
             /\ UNCHANGED <<attempts, answers>>
        ELSE LET passed == PassedThreshold(score, total_marks, cert_type.pass_percentage)
                 percentage == Round2(score, total_marks)
             IN /\ attempts' = [attempts EXCEPT ![aid] = GradedAttempt(@, score, percentage, passed)]
                /\ answers' = answers \o AnswerRows(aid, cert_type, req_answers)
                /\ Goto(p, "submit_issue",
                        req @@ [score |-> score, percentage |-> percentage, passed |-> passed])
  /\ UNCHANGED <<catalog, users, certificates, outbox, files>>

\* Certificate(...) of a passed attempt (main.py 198-205)
NewCertificate(user_id, code, ctype, percentage, grade) ==
  [user_id |-> user_id, certificate_code |-> code, certificate_type |-> ctype,
   percentage |-> percentage, grade |-> grade, is_paid |-> FALSE]

IssuesCertificate_always(passed) == TRUE

\* if passed: (main.py 197)
IssuesCertificate(passed) == passed

\* certificate issuance and the response (main.py 196-215);
\* certificates.certificate_code is unique
submit_exam_issue(p) ==
  /\ pc[p] = "submit_issue"
  /\ LET code == CertificateCode(CurrentYear, local[p].attempt_id)
         att == attempts[local[p].attempt_id]
     IN IF ~IssuesCertificate(local[p].passed)
        THEN /\ Respond(p, 200, "result", NoFields)
             /\ UNCHANGED certificates
        ELSE IF CertificateByCode(code) # 0
        THEN /\ Respond(p, 500, "IntegrityError", NoFields)
             /\ UNCHANGED certificates
        ELSE /\ certificates' = Append(certificates,
                   NewCertificate(local[p].user_id, code, local[p].ctype, att.percentage, att.grade))
             /\ Respond(p, 200, "result", [code |-> Some(code)])
  /\ UNCHANGED <<catalog, users, attempts, answers, outbox, files>>

(* -------------------------- razorpay_webhook -------------------------- *)

CompareDigest_unchecked(expected, signature) ==
  IF signature = None THEN "TypeError" ELSE "equal"

\* hmac.compare_digest(expected, signature): TypeError unless both are
\* strings, else whether they are equal (main.py 335)
CompareDigest(expected, signature) ==
  IF signature = None THEN "TypeError"
  ELSE IF signature[1] = expected THEN "equal"
  ELSE "different"

IsCaptured_any(body) == body.event # ""

\* payload.get("event") == "payment.captured" (main.py 340)
IsCaptured(body) == body.event = "payment.captured"

NeedsTransition_unguarded(cid) == cid # 0

\* if cert and not cert.is_paid: (main.py 349)
NeedsTransition(cid) == cid # 0 /\ ~certificates[cid].is_paid

\* signature check, event dispatch and the read of the Certificate
\* (main.py 326-349)
razorpay_webhook_receive(p, body, signature) ==
  /\ pc[p] = "idle"
  /\ LET req == [op |-> "webhook", sigclass |-> SignatureClass(body, signature)]
         expected == HmacSha256(RAZORPAY_WEBHOOK_SECRET, body)
         verdict == CompareDigest(expected, signature)
         parsed == req @@ [event |-> body.event]
         named == parsed @@ [code |-> Some(body.code)]
         cid == CertificateByCode(body.code)
     IN IF verdict = "TypeError"
        THEN Respond(p, 500, "TypeError", req)
        ELSE IF verdict # "equal"
        THEN Respond(p, 400, "Invalid signature", req)
        ELSE IF ~IsCaptured(body)
        THEN Respond(p, 200, "ok", parsed)
        ELSE IF NeedsTransition(cid)
        THEN Goto(p, "webhook_commit", named @@ [cert_id |-> cid])
        ELSE Respond(p, 200, "ok", named)
  /\ UNCHANGED <<catalog, store, outbox, files>>

PaidCertificate_toggle(cert) == [cert EXCEPT !.is_paid = ~@]

\* cert.is_paid = True (main.py 350)
PaidCertificate(cert) == [cert EXCEPT !.is_paid = TRUE]

\* the UPDATE of the row read and its commit (main.py 350-352)
razorpay_webhook_commit(p) ==
  /\ pc[p] = "webhook_commit"
  /\ certificates' = [certificates EXCEPT ![local[p].cert_id] = PaidCertificate(@)]
  /\ Goto(p, "webhook_notify", NoFields)
  /\ UNCHANGED <<catalog, users, attempts, answers, outbox, files>>

NotifyOutcome_swallowed(smtp_ok) == [status |-> 200, detail |-> "ok"]

\* how the handler ends after send_certificate_email: the call is not
\* guarded, so its exception is the outcome of the request (main.py 354-357)
NotifyOutcome(smtp_ok) ==
  IF smtp_ok THEN [status |-> 200, detail |-> "ok"]
  ELSE [status |-> 500, detail |-> "SMTPException"]

\* send_certificate_email(user, cert): the SMTP session either delivers the
\* message or raises (email_service.py 92-95); an exception leaves the
\* handler as a server error (main.py 354-357)
razorpay_webhook_notify(p, smtp_ok) ==
  /\ pc[p] = "webhook_notify"
  /\ LET code == certificates[local[p].cert_id].certificate_code
     IN outbox' = [outbox EXCEPT ![code] =
                    [calls |-> @.calls + 1,
                     delivered |-> @.delivered + (IF smtp_ok THEN 1 ELSE 0)]]
  /\ Respond(p, NotifyOutcome(smtp_ok).status, NotifyOutcome(smtp_ok).detail, NoFields)
  /\ UNCHANGED <<catalog, store, files>>

(* ------------------------- read-only handlers ------------------------- *)

DownloadAllowed_unpaid(cid) == cid # 0

\* if not cert or not cert.is_paid: raise 403 (main.py 259)
DownloadAllowed(cid) == cid # 0 /\ certificates[cid].is_paid

\* generate_certificate_png: img.save(os.path.join(CERT_DIR, f"{cert_code}.png"))
\* (certificate_engine.py 134-136)
GeneratedFile(code) == [files EXCEPT ![code] = FALSE]

\* main.py 251-272: the image is generated into the file of the code
download_certificate(p, code) ==
  /\ pc[p] = "idle"
  /\ LET req == [op |-> "download", code |-> Some(code)]
         cid == CertificateByCode(code)
     IN IF ~DownloadAllowed(cid)
        THEN /\ Respond(p, 403, "Payment required", req)
             /\ UNCHANGED files
        ELSE /\ files' = GeneratedFile(code)
             /\ Respond(p, 200, "image", req @@ [cert_id |-> cid])
  /\ UNCHANGED <<catalog, store, outbox>>

\* main.py 220-238: the read of the Certificate and the image generated
\* into the file of the code; the watermark follows when the row read is
\* unpaid
preview_certificate(p, code) ==
  /\ pc[p] = "idle"
  /\ LET req == [op |-> "preview", code |-> Some(code)]
         cid == CertificateByCode(code)
     IN IF cid = 0
        THEN /\ Respond(p, 404, "Certificate not found", req)
             /\ UNCHANGED files
        ELSE /\ files' = GeneratedFile(code)
             /\ Goto(p, IF ~certificates[cid].is_paid THEN "preview_watermark" ELSE "preview_serve",
                     req @@ [cert_id |-> cid])
  /\ UNCHANGED <<catalog, store, outbox>>

\* Image.open(img_path), add_preview_watermark, img.save(img_path)
\* (main.py 240-243): whatever the file holds is stamped and written back
preview_watermark(p) ==
  /\ pc[p] = "preview_watermark"
  /\ files' = [files EXCEPT ![local[p].code[1]] = TRUE]
  /\ Goto(p, "preview_serve", NoFields)
  /\ UNCHANGED <<catalog, store, outbox>>

\* FileResponse(img_path): the body sent is what the file holds when the
\* response is streamed (main.py 245)
ServedImage(p) ==
  IF files[local[p].code[1]] THEN "watermarked image" ELSE "image"

preview_serve(p) ==
  /\ pc[p] = "preview_serve"
  /\ Respond(p, 200, ServedImage(p), NoFields)
  /\ UNCHANGED <<catalog, store, outbox, files>>

PaymentRefused_missingOnly(cid) == cid = 0

\* if not cert or cert.is_paid: raise 400 (main.py 286)
PaymentRefused(cid) == cid = 0 \/ certificates[cid].is_paid

\* the order passed to razorpay_client.order.create (main.py 294-299)
OrderFor(cert_type, code) ==
  [amount |-> cert_type.certificate_fee * 100, currency |-> "INR",
   receipt |-> code, notes |-> [certificate_code |-> code]]

\* main.py 277-299: the provider either returns the order created or the
\* call raises and the request ends as a server error
create_payment(p, code, provider_ok) ==
  /\ pc[p] = "idle"
  /\ LET req == [op |-> "create_payment", code |-> Some(code)]
         cid == CertificateByCode(code)
     IN IF PaymentRefused(cid)
        THEN Respond(p, 400, "Invalid payment", req)
        ELSE LET cert_type == certificate_types[certificates[cid].certificate_type]
                 asked == req @@ [cert_id |-> cid, order |-> Some(OrderFor(cert_type, code))]
             IN IF provider_ok
                THEN Respond(p, 200, "order", asked)
                ELSE Respond(p, 500, "RazorpayError", asked)
  /\ UNCHANGED <<catalog, store, outbox, files>>

\* main.py 303-319
verify_certificate(p, code) ==
  /\ pc[p] = "idle"
  /\ LET req == [op |-> "verify", code |-> Some(code)]
         cid == CertificateByCode(code)
     IN IF cid = 0
        THEN Respond(p, 404, "Invalid certificate", req)
        ELSE Respond(p, 200, "certificate", req @@ [cert_id |-> cid])
  /\ UNCHANGED <<catalog, store, outbox, files>>

QuestionView_withAnswer(id, q) ==
  [id |-> id, question |-> q.question, options |-> q.options,
   correct_option |-> q.correct_option]

\* what the response shows of one Question (main.py 104-108)
QuestionView(id, q) == [id |-> id, question |-> q.question, options |-> q.options]

\* the response body of get_exam_questions over a bank (main.py 99-109)
QuestionsResponse(cert, ctype, bank) ==
  [certificate |-> cert.title, total_questions |-> cert.total_questions,
   mcq_mark |-> cert.mcq_mark, pass_percentage |-> cert.pass_percentage,
   questions |-> {QuestionView(q, bank[q]) :
                    q \in {x \in DOMAIN bank : bank[x].certificate_code = ctype}}]

\* main.py 81-109
get_exam_questions(p, ctype) ==
  /\ pc[p] = "idle"
  /\ LET req == [op |-> "questions", ctype |-> ctype]
     IN IF ctype \notin DOMAIN certificate_types
        THEN Respond(p, 404, "Invalid certificate", req)
        ELSE Respond(p, 200, "questions",
                     req @@ [body |-> Some(QuestionsResponse(certificate_types[ctype], ctype, questions))])
  /\ UNCHANGED <<catalog, store, outbox, files>>

\* the response has gone out; the worker takes the next request
finish(p) ==
  /\ pc[p] = "done"
  /\ pc' = [pc EXCEPT ![p] = "idle"]
  /\ local' = [local EXCEPT ![p] = NoRequest]
  /\ UNCHANGED <<catalog, store, outbox, files>>

\* the certificate codes a caller can name: those issued, and one never issued
RequestCodes == {certificates[i].certificate_code : i \in 1..Len(certificates)} \cup {MissingCode}

\* one step of handler p; the submissions draw their names and answer
\* lists from the given sets, and at most max_attempts of them are started
Step(p, names, answer_lists, max_attempts) ==
  \/ \E name \in names, email \in Emails, ctype \in RequestTypeCodes :
       submit_exam_lookup(p, name, email, ctype, max_attempts)
  \/ submit_exam_create_user(p)
  \/ submit_exam_insert_attempt(p)
  \/ \E req_answers \in answer_lists : submit_exam_grade(p, req_answers)
  \/ submit_exam_issue(p)
  \/ \E code \in RequestCodes, event \in EventTypes :
       \E signature \in SignaturesFor([event |-> event, code |-> code]) :
         razorpay_webhook_receive(p, [event |-> event, code |-> code], signature)
  \/ razorpay_webhook_commit(p)
  \/ \E smtp_ok \in BOOLEAN : razorpay_webhook_notify(p, smtp_ok)
  \/ \E code \in RequestCodes : download_certificate(p, code)
  \/ \E code \in RequestCodes : preview_certificate(p, code)
  \/ preview_watermark(p)
  \/ preview_serve(p)
  \/ \E code \in RequestCodes, provider_ok \in BOOLEAN : create_payment(p, code, provider_ok)
  \/ \E code \in RequestCodes : verify_certificate(p, code)
  \/ \E ctype \in RequestTypeCodes : get_exam_questions(p, ctype)
  \/ finish(p)

\* representative answer lists: nothing, one right answer, and an answer to
\* a question outside the bank
FewAnswerLists ==
  LET right == [question_id |-> 1, selected_option_id |-> Some(1)]
      stray == [question_id |-> UnknownQuestionId, selected_option_id |-> Some(1)]
  IN {<< >>, <<right>>, <<stray>>}

\* handlers running in two workers, interleaved at their commits
Next == \E p \in Procs : Step(p, {"Asha"}, FewAnswerLists, MaxConcurrentAttempts)

Spec == Init /\ [][Next]_vars

\* requests handled one after the other by one worker, over every catalog
\* and every name
NextSerial == Step("w1", Names, FewAnswerLists, MaxAttempts)

SpecSerial == InitAnyCatalog /\ [][NextSerial]_vars

\* one submission over every catalog and every answer list, and the
\* requests that follow it, handled one after the other
NextGrading == Step("w1", {"Asha"}, AnswerLists, 1)

SpecGrading == InitAnyCatalog /\ [][NextGrading]_vars

\* submissions only, running in two workers and interleaved at their commits
NextRacing ==
  \E p \in Procs :
    \/ \E name \in Names, email \in Emails, ctype \in RequestTypeCodes :
         submit_exam_lookup(p, name, email, ctype, MaxAttempts)
    \/ submit_exam_create_user(p)
    \/ submit_exam_insert_attempt(p)
    \/ \E req_answers \in FewAnswerLists : submit_exam_grade(p, req_answers)
    \/ submit_exam_issue(p)
    \/ finish(p)

SpecRacing == Init /\ [][NextRacing]_vars

\* the process dies while a submission is between two of its commits
\* (main.py 157-208): what was committed stays, the rest of the handler
\* never runs, and the restarted worker holds no request
crash(p) ==
  /\ pc[p] \in {"submit_attempt", "submit_grade", "submit_issue"}
  /\ pc' = [pc EXCEPT ![p] = "idle"]
  /\ local' = [local EXCEPT ![p] = NoRequest]
  /\ UNCHANGED <<catalog, store, outbox, files>>

\* submissions handled one after the other by a worker that may die
\* between the commits of a submission
NextCrash ==
  \/ \E name \in Names, email \in Emails, ctype \in RequestTypeCodes :
       submit_exam_lookup("w1", name, email, ctype, MaxAttempts)
  \/ submit_exam_create_user("w1")
  \/ submit_exam_insert_attempt("w1")
  \/ \E req_answers \in FewAnswerLists : submit_exam_grade("w1", req_answers)
  \/ submit_exam_issue("w1")
  \/ finish("w1")
  \/ crash("w1")

SpecCrash == InitAnyCatalog /\ [][NextCrash]_vars

\* the provider delivers the validly signed "payment.captured" event of an
\* issued certificate code (the first delivery or a redelivery)
deliver_captured(p, code) ==
  /\ CertificateByCode(code) # 0
  /\ LET body == [event |-> "payment.captured", code |-> code]
     IN razorpay_webhook_receive(p, body, Some(HmacSha256(RAZORPAY_WEBHOOK_SECRET, body)))

\* the notifier call made for a certificate code succeeds
notify_delivered(p, code) ==
  /\ local[p].code = Some(code)
  /\ razorpay_webhook_notify(p, TRUE)

\* submissions and webhook deliveries handled one after the other
NextRedelivery ==
  \/ \E name \in Names, email \in Emails, ctype \in RequestTypeCodes :
       submit_exam_lookup("w1", name, email, ctype, MaxAttempts)
  \/ submit_exam_create_user("w1")
  \/ submit_exam_insert_attempt("w1")
  \/ \E req_answers \in FewAnswerLists : submit_exam_grade("w1", req_answers)
  \/ submit_exam_issue("w1")
  \/ \E code \in RequestCodes, event \in EventTypes :
       \E signature \in SignaturesFor([event |-> event, code |-> code]) :
         razorpay_webhook_receive("w1", [event |-> event, code |-> code], signature)
  \/ razorpay_webhook_commit("w1")
  \/ \E smtp_ok \in BOOLEAN : razorpay_webhook_notify("w1", smtp_ok)
  \/ finish("w1")

\* a handler that has started runs to its response, the worker takes the
\* next request, the provider keeps delivering the capture event of every
\* certificate, and the notifier works in the end: a call that is made
\* again and again for a certificate succeeds
FairRedelivery ==
  /\ WF_vars(submit_exam_create_user("w1"))
  /\ WF_vars(submit_exam_insert_attempt("w1"))
  /\ WF_vars(\E req_answers \in FewAnswerLists : submit_exam_grade("w1", req_answers))
  /\ WF_vars(submit_exam_issue("w1"))
  /\ WF_vars(razorpay_webhook_commit("w1"))
  /\ WF_vars(\E smtp_ok \in BOOLEAN : razorpay_webhook_notify("w1", smtp_ok))
  /\ WF_vars(finish("w1"))
  /\ \A c \in AllCodes : SF_vars(deliver_captured("w1", c))
  /\ \A c \in AllCodes : SF_vars(notify_delivered("w1", c))

SpecRedelivery == Init /\ [][NextRedelivery]_vars /\ FairRedelivery

(* ------------------------------ properties ---------------------------- *)

AttemptIds == 1..Len(attempts)
CertificateIds == 1..Len(certificates)

\* a submission still between the insert of its Attempt and its response
InFlight(a) ==
  \E p \in Procs : pc[p] \in {"submit_grade", "submit_issue"} /\ local[p].attempt_id = a

\* the attempt id a certificate code was derived from
AttemptOfCode(code) == code[3]

CertificatesOf(a) ==
  {i \in CertificateIds : AttemptOfCode(certificates[i].certificate_code) = a}

Handled(p, op) == pc[p] = "done" /\ local[p].op = op

\* a handled webhook request that carried a validly signed
\* "payment.captured" event naming the code of a stored Certificate
CapturedFor(p, i) ==
  /\ Handled(p, "webhook")
  /\ local[p].sigclass = "valid"
  /\ local[p].event = "payment.captured"
  /\ local[p].code = Some(certificates[i].certificate_code)

\* C1: after any sequence of submit_exam calls, a submission has a
\* Certificate if and only if its Attempt passed (every finished passed
\* Attempt has one, no failed Attempt has one, every Certificate belongs to
\* a passed Attempt), and the Certificate a call has just created is unpaid.
C1_CertificateIffPassed ==
  /\ \A a \in AttemptIds :
       ~InFlight(a) => (attempts[a].is_passed <=> CertificatesOf(a) # {})
  /\ \A i \in CertificateIds :
       /\ AttemptOfCode(certificates[i].certificate_code) \in AttemptIds
       /\ attempts[AttemptOfCode(certificates[i].certificate_code)].is_passed
  /\ \A p \in Procs :
       Handled(p, "submit") /\ local[p].code # None =>
         /\ CertificateByCode(local[p].code[1]) # 0
         /\ ~certificates[CertificateByCode(local[p].code[1])].is_paid

\* a passed submission has just been answered with its unpaid Certificate
\* while an earlier failed Attempt has none
C1_Witness ==
  /\ \E p \in Procs :
       /\ Handled(p, "submit") /\ local[p].code # None
       /\ attempts[local[p].attempt_id].is_passed
       /\ CertificatesOf(local[p].attempt_id) # {}
  /\ \E a \in AttemptIds :
       ~InFlight(a) /\ ~attempts[a].is_passed /\ CertificatesOf(a) = {}

\* C2 as stated: with the deliveries of a validly signed "payment.captured"
\* event handled one after the other, send_certificate_email is called at
\* most once per certificate, and every such delivery for a stored
\* Certificate leaves is_paid true and is answered {status: ok}.
C2_BothAnsweredOk ==
  /\ \A c \in AllCodes : outbox[c].calls <= 1
  /\ \A p \in Procs : \A i \in CertificateIds :
       CapturedFor(p, i) =>
         certificates[i].is_paid /\ local[p].status = 200 /\ local[p].detail = "ok"

\* C2 amended: as C2, except that the delivery that makes the transition
\* is answered with a server error when send_certificate_email raises; a
\* delivery for an already-paid Certificate never reaches the write or the
\* notifier and is answered {status: ok}.
C2_IdempotentDelivery ==
  /\ \A c \in AllCodes : outbox[c].calls <= 1
  /\ \A p \in Procs : \A i \in CertificateIds :
       CapturedFor(p, i) =>
         /\ certificates[i].is_paid
         /\ \/ local[p].status = 200 /\ local[p].detail = "ok"
            \/ /\ local[p].status = 500 /\ local[p].detail = "SMTPException"
               /\ local[p].cert_id = i
         /\ local[p].cert_id = 0 => local[p].status = 200
  /\ \A p \in Procs :
       pc[p] = "webhook_commit" => ~certificates[local[p].cert_id].is_paid

\* the second delivery for a certificate has been answered: it made no
\* transition, the certificate is paid and one email call was made
C2_Witness ==
  \E p \in Procs : \E i \in CertificateIds :
    /\ CapturedFor(p, i)
    /\ local[p].cert_id = 0
    /\ local[p].status = 200
    /\ certificates[i].is_paid
    /\ outbox[certificates[i].certificate_code].calls = 1

\* C3: with deliveries of a validly signed "payment.captured" event for one
\* unpaid certificate handled concurrently, send_certificate_email is
\* called at most once for that certificate (and is_paid ends true).
C3_AtMostOneEmail ==
  \A i \in CertificateIds :
    /\ outbox[certificates[i].certificate_code].calls <= 1
    /\ outbox[certificates[i].certificate_code].calls > 0 => certificates[i].is_paid

\* C4: download_certificate answers with the image if and only if the
\* stored Certificate of the code is paid when the request is handled, and
\* with the payment-required error for a stored unpaid Certificate.
C4_DownloadIffPaid ==
  [][\A p \in Procs :
       pc[p] = "idle" /\ pc'[p] # "idle" /\ local'[p].op = "download" =>
         LET cid == CertificateByCode(local'[p].code[1])
             paid == cid # 0 /\ certificates[cid].is_paid
         IN /\ pc'[p] = "done"
            /\ (local'[p].status = 200 /\ local'[p].detail = "image") <=> paid
            /\ ~paid => local'[p].status = 403 /\ local'[p].detail = "Payment required"
            /\ UNCHANGED <<store, outbox>>]_vars

\* a download of a stored Certificate was refused while it was unpaid and,
\* the payment captured since, another was answered with its image
C4_Witness ==
  \E p, q \in Procs : \E i \in CertificateIds :
    /\ Handled(p, "download") /\ local[p].status = 200
    /\ local[p].code = Some(certificates[i].certificate_code)
    /\ certificates[i].is_paid
    /\ Handled(q, "download") /\ local[q].status = 403
    /\ local[q].code = Some(certificates[i].certificate_code)

\* C5: a webhook request whose signature header is missing or is not the
\* HMAC-SHA256 of the raw body under the webhook secret is rejected with the
\* authentication error (400 "Invalid signature").
C5_BadSignatureRejected ==
  \A p \in Procs :
    Handled(p, "webhook") /\ local[p].sigclass # "valid" =>
      /\ local[p].status = 400 /\ local[p].detail = "Invalid signature"
      /\ local[p].cert_id = 0

\* C6: a Certificate becomes paid (or appears paid) in a step only if the
\* step is the write of a razorpay_webhook handler that accepted a validly
\* signed "payment.captured" event naming that Certificate's code.
C6_PaidOnlyByVerifiedCapture ==
  [][\A i \in 1..Len(certificates') :
       certificates'[i].is_paid /\ (i > Len(certificates) \/ ~certificates[i].is_paid) =>
         \E p \in Procs :
           /\ pc[p] = "webhook_commit" /\ pc'[p] = "webhook_notify"
           /\ local[p].sigclass = "valid"
           /\ local[p].event = "payment.captured"
           /\ local[p].code = Some(certificates'[i].certificate_code)]_vars

\* a Certificate for which an order was created while it was unpaid has
\* become paid through a verified capture event, just answered
C6_Witness ==
  \E p, q \in Procs : \E i \in CertificateIds :
    /\ certificates[i].is_paid
    /\ Handled(p, "create_payment") /\ local[p].status = 200 /\ local[p].cert_id = i
    /\ CapturedFor(q, i) /\ local[q].cert_id = i

\* C7: a Certificate row is never removed or renamed, and once is_paid is
\* true it stays true: the only change of payment state is unpaid to paid.
C7_PaidIsTerminal ==
  [][\A i \in CertificateIds :
       /\ i <= Len(certificates')
       /\ certificates'[i].certificate_code = certificates[i].certificate_code
       /\ certificates[i].is_paid => certificates'[i].is_paid]_vars

\* a paid Certificate for which a further verified capture event was
\* handled while another handler was still about to write it
C7_Witness ==
  \E i \in CertificateIds : \E p \in Procs :
    /\ certificates[i].is_paid
    /\ pc[p] = "webhook_commit" /\ local[p].cert_id = i

\* C8: a validly signed event of another type than "payment.captured" is
\* answered {status: ok} at once: its handler never reaches the write of
\* is_paid or the notifier.
C8_OtherEventsAcknowledged ==
  \A p \in Procs :
    /\ local[p].op = "webhook"
    /\ local[p].sigclass = "valid"
    /\ local[p].event # "payment.captured"
    => /\ pc[p] = "done"
       /\ local[p].status = 200 /\ local[p].detail = "ok"
       /\ local[p].cert_id = 0 /\ local[p].code = None

\* a verified "payment.failed" event was acknowledged while an unpaid
\* Certificate is stored
C8_Witness ==
  /\ \E p \in Procs :
       /\ Handled(p, "webhook") /\ local[p].sigclass = "valid"
       /\ local[p].event = "payment.failed" /\ local[p].status = 200
  /\ \E i \in CertificateIds : ~certificates[i].is_paid

\* C9: every persisted Attempt has 0 <= total_marks_obtained <= total_marks.
C9_MarksWithinTotal ==
  \A a \in AttemptIds :
    /\ 0 <= attempts[a].total_marks_obtained
    /\ attempts[a].total_marks_obtained <= attempts[a].total_marks

\* C10: a submission whose answers all name questions of the bank is
\* answered with percentage = 100 * marks / total_marks (to two decimals),
\* and with percentage 0 when total_marks = 0.
C10_PercentageDefined ==
  \A p \in Procs :
    Handled(p, "submit") /\ local[p].attempt_id # 0 /\ local[p].detail # "KeyError" =>
      /\ local[p].status = 200
      /\ local[p].total_marks = 0 => local[p].percentage = 0
      /\ local[p].total_marks > 0 =>
           LET d == local[p].percentage * local[p].total_marks - 10000 * local[p].score
           IN 2 * d <= local[p].total_marks /\ -2 * d <= local[p].total_marks

\* C11: every persisted Attempt that readers can see has is_passed equal
\* to (its stored percentage >= the pass_percentage of its CertificateType).
C11_PassedMatchesStoredPercentage ==
  \A a \in AttemptIds :
    attempts[a].is_passed <=>
      attempts[a].percentage >= certificate_types[attempts[a].certificate_code].pass_percentage

\* C12: in every reachable state, between the commits of a submission and
\* under concurrent submissions included, no two Certificate rows carry the
\* same certificate_code; the codes differ by construction (each is derived
\* from the id of its own Attempt), so no issuance is refused for a
\* duplicate code.
C12_CodesUnique ==
  /\ \A i, j \in CertificateIds :
       certificates[i].certificate_code = certificates[j].certificate_code => i = j
  /\ \A i \in CertificateIds :
       /\ AttemptOfCode(certificates[i].certificate_code) \in AttemptIds
       /\ certificates[i].user_id = attempts[AttemptOfCode(certificates[i].certificate_code)].user_id
  /\ \A p \in Procs :
       Handled(p, "submit") /\ local[p].detail = "IntegrityError" => local[p].attempt_id = 0

\* two submissions overlapped: the Certificate of the later Attempt was
\* issued before that of the earlier one, whose handler has just answered
C12_Witness ==
  /\ Len(certificates) = 2
  /\ AttemptOfCode(certificates[1].certificate_code) = 2
  /\ AttemptOfCode(certificates[2].certificate_code) = 1
  /\ \E p \in Procs : Handled(p, "submit") /\ local[p].attempt_id = 1

\* the answer items of a handled submission that name a question of the
\* bank of its certificate
KnownItems(p) ==
  SelectSeq(local[p].answers, LAMBDA a : a.question_id \in QMap(local[p].ctype))

\* C13: a submission with an answer item whose question_id is outside the
\* bank completes without error; the item adds 0 to the score (the score is
\* that of the other items) and total_marks is what it is without the item.
C13_UnknownQuestionIgnored ==
  \A p \in Procs :
    /\ Handled(p, "submit") /\ local[p].attempt_id # 0
    /\ KnownItems(p) # local[p].answers
    => /\ local[p].status = 200
       /\ local[p].score = Score(certificate_types[local[p].ctype], KnownItems(p))
       /\ local[p].total_marks = TotalMarks(certificate_types[local[p].ctype])

\* C14: when send_certificate_email fails in the handler of a verified
\* "payment.captured" event for an unpaid Certificate, the Certificate is
\* paid in the store afterwards (the write is not rolled back) and the
\* request ends as an error, not as {status: ok}.
C14_NotifierFailureSurfaced ==
  [][\A p \in Procs :
       LET code == certificates[local[p].cert_id].certificate_code
       IN /\ pc[p] = "webhook_notify" /\ pc'[p] # pc[p]
          /\ outbox'[code].calls = outbox[code].calls + 1
          /\ outbox'[code].delivered = outbox[code].delivered
          => /\ pc'[p] = "done"
             /\ local'[p].status >= 400
             /\ certificates' = certificates
             /\ certificates'[local[p].cert_id].is_paid
             /\ local[p].sigclass = "valid" /\ local[p].event = "payment.captured"]_vars

\* the notifier has failed for a Certificate: nothing was delivered, the
\* request was answered with a server error and the Certificate is paid
C14_Witness ==
  \E p \in Procs : \E i \in CertificateIds :
    /\ CapturedFor(p, i) /\ local[p].cert_id = i
    /\ local[p].status = 500
    /\ certificates[i].is_paid
    /\ outbox[certificates[i].certificate_code].calls = 1
    /\ outbox[certificates[i].certificate_code].delivered = 0

\* C15: every preview request for a stored Certificate succeeds, paid or
\* not, and while the Certificate is unpaid the image served is the
\* watermarked one, also when previews of the same code run concurrently
\* over the shared file cert_previews/<code>.png.
C15_PreviewWatermarked ==
  \A p \in Procs :
    Handled(p, "preview") /\ local[p].cert_id # 0 =>
      /\ local[p].status = 200
      /\ ~certificates[local[p].cert_id].is_paid => local[p].detail = "watermarked image"

\* C16: create_payment fails with an error, requests no provider order and
\* changes no stored state when the code matches no Certificate or a paid
\* one; for a stored unpaid Certificate it requests an order whose amount
\* is the certificate_fee of its CertificateType times 100 and whose notes
\* carry the certificate code, and changes no stored state either.
C16_PaymentOnlyForUnpaid ==
  [][\A p \in Procs :
       pc[p] = "idle" /\ pc'[p] # "idle" /\ local'[p].op = "create_payment" =>
         LET code == local'[p].code[1]
             cid == CertificateByCode(code)
         IN /\ pc'[p] = "done"
            /\ UNCHANGED <<catalog, store, outbox, files>>
            /\ cid = 0 \/ certificates[cid].is_paid =>
                 /\ local'[p].status = 400 /\ local'[p].detail = "Invalid payment"
                 /\ local'[p].order = None
            /\ cid # 0 /\ ~certificates[cid].is_paid =>
                 /\ local'[p].order # None
                 /\ local'[p].order[1].amount =
                      certificate_types[certificates[cid].certificate_type].certificate_fee * 100
                 /\ local'[p].order[1].notes.certificate_code = code
                 /\ local'[p].status # 400]_vars

\* an order was requested for a Certificate while it was unpaid and, the
\* payment captured since, a further request for it was refused
C16_Witness ==
  \E p, q \in Procs : \E i \in CertificateIds :
    /\ certificates[i].is_paid
    /\ Handled(p, "create_payment") /\ local[p].status = 400
    /\ local[p].code = Some(certificates[i].certificate_code) /\ local[p].order = None
    /\ Handled(q, "create_payment") /\ local[q].status = 200
    /\ local[q].order = Some(OrderFor(certificate_types[certificates[i].certificate_type],
                                       certificates[i].certificate_code))

\* C17: every request that names an unknown code (get_exam_questions and
\* submit_exam with an unknown CertificateType code; preview, download and
\* verify with a code that no Certificate carries) is answered 404 and
\* leaves Users, Attempts, Answers and Certificates unchanged.
C17_UnknownCodeNotFound ==
  [][\A p \in Procs :
       /\ pc[p] = "idle" /\ pc'[p] # "idle"
       /\ \/ /\ local'[p].op \in {"questions", "submit"}
             /\ local'[p].ctype \notin DOMAIN certificate_types
          \/ /\ local'[p].op \in {"preview", "download", "verify"}
             /\ CertificateByCode(local'[p].code[1]) = 0
       => /\ pc'[p] = "done"
          /\ local'[p].status = 404
          /\ UNCHANGED store]_vars

\* the banks that differ from the stored one only in correct_option values
BanksWithOtherAnswers ==
  {[q \in DOMAIN questions |-> [questions[q] EXCEPT !.correct_option = alt[q]]] :
     alt \in [DOMAIN questions -> {None} \cup {Some(o) : o \in OptionIds \cup {0}}]}

\* C18: the response of get_exam_questions does not depend on the
\* correct_option values: over any bank that differs from the stored one
\* only in correct_option the response is the one that was given.
C18_AnswersNotExposed ==
  \A p \in Procs :
    Handled(p, "questions") /\ local[p].status = 200 =>
      \A bank \in BanksWithOtherAnswers :
        local[p].body =
          Some(QuestionsResponse(certificate_types[local[p].ctype], local[p].ctype, bank))

\* the questions of a bank that holds a correct option have been served
C18_Witness ==
  \E p \in Procs :
    /\ Handled(p, "questions") /\ local[p].status = 200
    /\ local[p].body[1].questions # {}
    /\ \E q \in DOMAIN questions :
         questions[q].certificate_code = local[p].ctype /\ questions[q].correct_option # None
    /\ Cardinality(BanksWithOtherAnswers) > 1

\* C19: each submit_exam call that passes the certificate lookup persists
\* exactly one new Attempt (it ends holding the id of an Attempt row that
\* no other call holds), no step removes an Attempt or changes one other
\* than the grading of the call that inserted it, so the score fields of a
\* completed call's Attempt never change afterwards.
C19_OneAttemptPerCall ==
  [][/\ Len(attempts') \in {Len(attempts), Len(attempts) + 1}
     /\ \A a \in AttemptIds :
          attempts'[a] # attempts[a] =>
            \E p \in Procs :
              pc[p] = "submit_grade" /\ pc'[p] # pc[p] /\ local[p].attempt_id = a
     /\ \A p \in Procs :
          /\ pc[p] # "done" /\ pc'[p] = "done"
          /\ local'[p].op = "submit" /\ local'[p].status # 404
          => /\ local'[p].attempt_id \in 1..Len(attempts')
             /\ \A q \in Procs \ {p} : local'[q].attempt_id # local'[p].attempt_id]_vars

\* C20: when a step of submit_exam fails after the call has started, no
\* Attempt of that submission is visible to readers afterwards: the store
\* holds no Attempt row of a submission that ended in an error.
C20_NoPartialAttempt ==
  \A p \in Procs :
    Handled(p, "submit") /\ local[p].status >= 500 =>
      local[p].attempt_id \notin AttemptIds

\* the Answer rows of an Attempt
AnswersOf(a) == SelectSeq(answers, LAMBDA r : r.attempt_id = a)

\* C21: when a submission is interrupted between its commits, the store
\* holds no Attempt whose score disagrees with its graded Answers, no passed
\* Attempt without its Certificate, and no Certificate whose code is not
\* the final code of an Attempt.
C21_CrashLeavesConsistentStore ==
  /\ \A a \in AttemptIds :
       ~InFlight(a) =>
         /\ attempts[a].total_marks_obtained = SumMarks(AnswersOf(a))
         /\ attempts[a].is_passed => CertificatesOf(a) # {}
  /\ \A i \in CertificateIds :
       /\ certificates[i].certificate_code[1] = "IPS"
       /\ AttemptOfCode(certificates[i].certificate_code) \in AttemptIds

\* the sum of max_marks over the questions ids of a bank
RECURSIVE SumMaxMarks(_)
SumMaxMarks(ids) ==
  IF ids = {} THEN 0
  ELSE LET q == CHOOSE x \in ids : TRUE
       IN questions[q].max_marks + SumMaxMarks(ids \ {q})

\* C22: the total_marks stored on an Attempt is the sum of max_marks over
\* the Questions of the bank of its certificate code, whatever the
\* CertificateType announces as its number of questions.
C22_TotalMarksIsBankSum ==
  \A a \in AttemptIds :
    attempts[a].total_marks = SumMaxMarks(QMap(attempts[a].certificate_code))

\* C23: an answer item earns the marks of its question if and only if its
\* selected_option_id equals the question's correct_option, and 0
\* otherwise; a null selected_option_id earns 0, also when the question's
\* correct_option is null.
C23_NullAnswerEarnsNothing ==
  \A i \in 1..Len(answers) :
    LET r == answers[i]
        mcq_mark == certificate_types[attempts[r.attempt_id].certificate_code].mcq_mark
    IN /\ r.marks_awarded \in {0, mcq_mark}
       /\ r.marks_awarded = mcq_mark <=>
            (r.selected_option_id # None /\ r.selected_option_id = r.correct_option)

\* C24: after any interleaving of submit_exam calls at most one User row
\* exists per email, a stored User is never changed or removed, and every
\* submission for a known certificate, two concurrent first submissions
\* with the same new email included, has its Attempt recorded against the
\* single User of its email instead of failing on the User.
C24_OneUserPerEmail ==
  [][/\ \A i \in 1..Len(users) : i <= Len(users') /\ users'[i] = users[i]
     /\ \A i, j \in 1..Len(users') : users'[i].email = users'[j].email => i = j
     /\ \A p \in Procs :
          /\ pc[p] # "done" /\ pc'[p] = "done"
          /\ local'[p].op = "submit" /\ local'[p].status # 404
          => /\ local'[p].detail # "IntegrityError"
             /\ local'[p].attempt_id \in 1..Len(attempts')
             /\ attempts'[local'[p].attempt_id].user_id
                  = First({i \in 1..Len(users') : users'[i].email = local'[p].email})]_vars

\* C25: every Certificate that becomes paid eventually has its issuance
\* notification sent: with the capture event redelivered and a notifier
\* that works in the end, send_certificate_email eventually succeeds for it.
C25_PaidEventuallyNotified ==
  \A c \in AllCodes :
    (\E i \in CertificateIds :
       certificates[i].certificate_code = c /\ certificates[i].is_paid)
      ~> (outbox[c].delivered > 0)

\* C26: after a completed submit_exam call the Answer rows of its new
\* Attempt are exactly one per submitted answer item, every Answer row
\* references a stored Attempt, and the sum of their marks_awarded is the
\* Attempt's total_marks_obtained and the score returned to the caller.
C26_AnswersMatchSubmission ==
  /\ \A i \in 1..Len(answers) : answers[i].attempt_id \in AttemptIds
  /\ \A p \in Procs :
       Handled(p, "submit") /\ local[p].status = 200 =>
         LET a == local[p].attempt_id
             rows == AnswersOf(a)
         IN /\ a \in AttemptIds
            /\ Len(rows) = Len(local[p].answers)
            /\ \A k \in 1..Len(rows) :
                 /\ rows[k].question_id = local[p].answers[k].question_id
                 /\ rows[k].selected_option_id = local[p].answers[k].selected_option_id
            /\ SumMarks(rows) = attempts[a].total_marks_obtained
            /\ SumMarks(rows) = local[p].score

\* a submission of two answer items has completed with marks awarded
C26_Witness ==
  \E p \in Procs :
    /\ Handled(p, "submit") /\ local[p].status = 200
    /\ Len(local[p].answers) = 2
    /\ Len(AnswersOf(local[p].attempt_id)) = 2
    /\ local[p].score > 0

====
